---- MODULE Spec2Model ----
(***************************************************************************)
(* A model of the docify proc macros (macros/src/lib.rs): the attribute    *)
(* macro `export` (export_internal) and the function-like macros `embed`   *)
(* and `embed_run` (embed_internal), with the visitor ItemVisitor that     *)
(* searches a parsed source file for exported items.                       *)
(*                                                                         *)
(* One behaviour is one macro invocation.  Init draws the invocation (the  *)
(* macro, its arguments) and the content of the file at the given path;    *)
(* the actions are the steps of the invocation.                            *)
(*                                                                         *)
(* Data.                                                                   *)
(*  - An Item is a record [kind, ident, attrs, items]:                     *)
(*      kind   the syn::Item variant;                                      *)
(*      ident  the identifier the variant carries in its syntax: the       *)
(*             `ident` field of the named variants and of Item::Macro      *)
(*             (None when absent), the self type of an Item::Impl, the     *)
(*             leaf of the tree of an Item::Use; None for the others;      *)
(*      attrs  the attributes written on the item, in order;               *)
(*      items  the Items that syn's default visit::visit_item reaches      *)
(*             directly below this one (a module's content, items inside   *)
(*             a function body or inside the methods of an impl).          *)
(*  - An Attribute is a record [style, path, meta]; meta is [t, tokens].   *)
(*  - A String is the sequence of its lines, split at every "\n" (so the   *)
(*    empty string is <<Blank>> and a text ending in "\n" ends in Blank).  *)
(*    A run of lines holding one item is one element Code(item, layout);   *)
(*    layout is "pretty" for prettyplease's output, "tokens" for the       *)
(*    output of TokenStream::to_string, "ragged" for hand-written layout.  *)
(***************************************************************************)
EXTENDS Naturals, Sequences, FiniteSets, TLC

VARIABLES call, fs, pc, source_file, stack, results, matched, ret, panicked

vars == <<call, fs, pc, source_file, stack, results, matched, ret, panicked>>

\* ------------------------------------------------------------------------
\* Bounds of the model
\* ------------------------------------------------------------------------
\* the largest number of attributes on the item of a single-item file
MaxAttrs == 2
\* the largest number of items (at all depths) of a multi-item file
MaxNodes == 3

\* ------------------------------------------------------------------------
\* Values
\* ------------------------------------------------------------------------
None == "None"
Idents == {"a", "b"}

Id(x) == [tt |-> "Ident", text |-> x]
Comma == [tt |-> "Punct", text |-> ","]

MetaPath == [t |-> "Path", tokens |-> <<>>]
MetaList(toks) == [t |-> "List", tokens |-> toks]
MetaNameValue == [t |-> "NameValue", tokens |-> <<>>]

Attr(style, path, meta) == [style |-> style, path |-> path, meta |-> meta]

\* #[export], #[export(a)]
AExport == Attr("Outer", <<"export">>, MetaPath)
AExportA == Attr("Outer", <<"export">>, MetaList(<<Id("a")>>))
\* #[docify::export], #[docify::export(a)], #[docify::export(b)]
ADocify == Attr("Outer", <<"docify", "export">>, MetaPath)
ADocifyA == Attr("Outer", <<"docify", "export">>, MetaList(<<Id("a")>>))
ADocifyB == Attr("Outer", <<"docify", "export">>, MetaList(<<Id("b")>>))
\* #[docify::export(a, b)]: the argument is not a single identifier
ADocifyList == Attr("Outer", <<"docify", "export">>, MetaList(<<Id("a"), Comma, Id("b")>>))
\* #[export::export]
AExportExport == Attr("Outer", <<"export", "export">>, MetaPath)
\* #[x::docify::export(b)]
ALongDocify == Attr("Outer", <<"x", "docify", "export">>, MetaList(<<Id("b")>>))
\* #[foo::export(a)]
AFoo == Attr("Outer", <<"foo", "export">>, MetaList(<<Id("a")>>))
\* #![docify::export(a)]
AInner == Attr("Inner", <<"docify", "export">>, MetaList(<<Id("a")>>))
\* #[doc = "..."]
ADoc == Attr("Outer", <<"doc">>, MetaNameValue)

AttrSet ==
  {AExport, AExportA, ADocify, ADocifyA, ADocifyB, ADocifyList,
   AExportExport, ALongDocify, AFoo, AInner, ADoc}

Item(kind, ident, attrs, items) ==
  [kind |-> kind, ident |-> ident, attrs |-> attrs, items |-> items]

\* the variants of syn::Item whose struct has an `ident: Ident` field
NamedKinds ==
  {"Const", "Enum", "ExternCrate", "Fn", "Mod", "Static", "Struct",
   "Trait", "TraitAlias", "Type", "Union"}
\* the variants of syn::Item whose struct has an `attrs` field
AttrKinds == NamedKinds \cup {"ForeignMod", "Impl", "Macro", "Use"}
ItemKinds == AttrKinds \cup {"Verbatim"}

\* ------------------------------------------------------------------------
\* name_ident, item_attributes, set_item_attributes
\* ------------------------------------------------------------------------
\* name_ident with an arm for every variant that has some identifier
name_ident_any(item) == item.ident

name_ident(item) ==
  CASE item.kind \in NamedKinds -> item.ident
    [] item.kind = "Macro" -> item.ident
    [] OTHER -> None

EMPTY == <<>>

item_attributes(item) ==
  CASE item.kind \in AttrKinds -> item.attrs
    [] OTHER -> EMPTY

\* set_item_attributes without the arm for Item::Use
set_item_attributes_no_use(item, attrs) ==
  CASE item.kind \in AttrKinds \ {"Use"} ->
         [panic |-> FALSE, item |-> [item EXCEPT !.attrs = attrs]]
    [] OTHER -> [panic |-> TRUE, item |-> item]

\* the result of set_item_attributes: the item written to, or the panic of
\* the unimplemented!() arm
set_item_attributes(item, attrs) ==
  CASE item.kind \in AttrKinds ->
         [panic |-> FALSE, item |-> [item EXCEPT !.attrs = attrs]]
    [] OTHER -> [panic |-> TRUE, item |-> item]

\* ------------------------------------------------------------------------
\* Strings
\* ------------------------------------------------------------------------
NoItem == [kind |-> "None", ident |-> None, attrs |-> <<>>, items |-> <<>>]

Line(t, item, info) == [t |-> t, item |-> item, info |-> info]
Blank == Line("blank", NoItem, "")
Comment == Line("comment", NoItem, "")
Garbage == Line("garbage", NoItem, "")
Code(item, layout) == Line("code", item, layout)
FenceIgnore == Line("fence", NoItem, "ignore")
Fence == Line("fence", NoItem, "")

RECURSIVE Flatten(_)
Flatten(ss) == IF ss = <<>> THEN <<>> ELSE Head(ss) \o Flatten(Tail(ss))

Front(s) == SubSeq(s, 1, Len(s) - 1)

\* str::lines: the lines of a string, without the empty piece after a final "\n"
lines(s) == IF s # <<>> /\ s[Len(s)] = Blank THEN Front(s) ELSE s

\* [String]::join("\n\n")
RECURSIVE join_blank_line(_)
join_blank_line(strs) ==
  IF Len(strs) <= 1 THEN Flatten(strs)
  ELSE Head(strs) \o <<Blank>> \o join_blank_line(Tail(strs))

\* [String]::join("\n") of non-empty lists of lines
join(strs) == Flatten(strs)

\* syn::parse_file (and str::parse::<TokenStream> followed by parse2::<File>):
\* comments and blank lines are dropped; anything that is not Rust is an error
parse_file(source) ==
  LET IsCode(l) == l.t = "code"
      codes == SelectSeq(source, IsCode)
  IN [ok |-> \A i \in 1..Len(source) : source[i].t \in {"code", "comment", "blank"},
      items |-> [i \in 1..Len(codes) |-> codes[i].item]]

\* prettyplease::unparse: every item in canonical layout, a final "\n" after
\* the last one
unparse(items) ==
  IF items = <<>> THEN <<Blank>>
  ELSE [i \in 1..Len(items) |-> Code(items[i], "pretty")] \o <<Blank>>

\* ToTokens::to_token_stream followed by to_string, of an item
to_string(item) == <<Code(item, "tokens")>>

format_source_code(source) ==
  LET f == parse_file(source)
  IN [panic |-> ~f.ok, text |-> IF f.ok THEN unparse(f.items) ELSE <<>>]

into_example(st, ignore) ==
  LET f == format_source_code(st)
      body == lines(f.text)
      pushed == <<<<IF ignore THEN FenceIgnore ELSE Fence>>>>
                \o [i \in 1..Len(body) |-> <<body[i]>>]
                \o <<<<Fence>>>>
  IN [panic |-> f.panic, text |-> join(pushed)]

\* ------------------------------------------------------------------------
\* ItemVisitor::visit_item
\* ------------------------------------------------------------------------
\* parse2::<Ident>(tokens)
parse2_Ident(tokens) ==
  IF Len(tokens) = 1 /\ tokens[1].tt = "Ident" THEN tokens[1].text ELSE None

\* the four `continue`s that decide whether an attribute is an export tag
IsExportTag(attr) ==
  /\ attr.style = "Outer"
  /\ Len(attr.path) >= 1
  /\ attr.path[Len(attr.path)] = "export"
  /\ Len(attr.path) >= 2
  /\ \/ attr.path[Len(attr.path) - 1] = attr.path[Len(attr.path)]
     \/ attr.path[Len(attr.path) - 1] = "docify"

\* "resolve item_ident": None stands for the `continue` of the last arm
ResolveIdent(attr, node) ==
  LET item_ident == IF attr.meta.t = "List" THEN parse2_Ident(attr.meta.tokens) ELSE None
  IN IF item_ident # None THEN item_ident ELSE name_ident(node)

\* the loop with a `break` after the first export tag, whatever its name
RECURSIVE ScanAttrs_first_tag(_, _, _, _)
ScanAttrs_first_tag(node, attrs, search, i) ==
  IF i > Len(attrs) THEN 0
  ELSE IF ~IsExportTag(attrs[i]) THEN ScanAttrs_first_tag(node, attrs, search, i + 1)
  ELSE IF ResolveIdent(attrs[i], node) = None
    THEN ScanAttrs_first_tag(node, attrs, search, i + 1)
  ELSE IF ResolveIdent(attrs[i], node) = search THEN i
  ELSE 0

\* the `for attr in attrs` loop from the i-th attribute (1-based) on: the
\* position of the attribute at which the loop breaks, 0 when it runs out
RECURSIVE ScanAttrs(_, _, _, _)
ScanAttrs(node, attrs, search, i) ==
  IF i > Len(attrs) THEN 0
  ELSE IF ~IsExportTag(attrs[i]) THEN ScanAttrs(node, attrs, search, i + 1)
  ELSE IF ResolveIdent(attrs[i], node) = None THEN ScanAttrs(node, attrs, search, i + 1)
  ELSE IF ResolveIdent(attrs[i], node) = search THEN i
  ELSE ScanAttrs(node, attrs, search, i + 1)

\* the filter with `n != i`, forgetting that i is 1-based
attrs_without_next_one(attrs, i) ==
  LET Keep == {n \in 1..Len(attrs) : n - 1 # i}
      Rank(n) == Cardinality({m \in Keep : m <= n})
  IN [k \in 1..Cardinality(Keep) |-> attrs[CHOOSE n \in Keep : Rank(n) = k]]

\* attrs.iter().enumerate().filter(|&(n, _)| n != i - 1).map(|(_, v)| v)
attrs_without_this_one(attrs, i) ==
  LET Keep == {n \in 1..Len(attrs) : n - 1 # i - 1}
      Rank(n) == Cardinality({m \in Keep : m <= n})
  IN [k \in 1..Cardinality(Keep) |-> attrs[CHOOSE n \in Keep : Rank(n) = k]]

\* the item a path of child positions names
RECURSIVE NodeAt(_, _)
NodeAt(items, p) ==
  IF Len(p) = 1 THEN items[p[1]] ELSE NodeAt(items[p[1]].items, Tail(p))

ChildPaths(p, node) == [k \in 1..Len(node.items) |-> Append(p, k)]

\* ------------------------------------------------------------------------
\* The inputs: source files, their text, and the macro invocations
\* ------------------------------------------------------------------------
RECURSIVE SeqsUpTo(_, _)
SeqsUpTo(S, n) ==
  IF n = 0 THEN {<<>>}
  ELSE LET shorter == SeqsUpTo(S, n - 1)
       IN shorter \cup {Append(s, x) : s \in {t \in shorter : Len(t) = n - 1}, x \in S}

\* files of one item: a few variants under every list of attributes
AttrFiles ==
  {<<Item(ki[1], ki[2], attrs, <<>>)>> :
     ki \in {<<"Fn", "b">>, <<"Macro", None>>, <<"Verbatim", None>>},
     attrs \in SeqsUpTo(AttrSet, MaxAttrs)}

\* files of one item: every variant under a few lists of attributes
KindIdents ==
  {<<k, "a">> : k \in NamedKinds \cup {"Macro", "Impl", "Use"}}
    \cup {<<k, None>> : k \in {"Macro", "ForeignMod", "Verbatim"}}
KindFiles ==
  {<<Item(ki[1], ki[2], attrs, <<>>)>> :
     ki \in KindIdents, attrs \in {<<ADocify>>, <<ADoc, ADocifyB>>}}

\* files of up to MaxNodes items, nested in every way
TreeLabels ==
  {Item("Mod", "b", <<ADocify>>, <<>>),
   Item("Fn", "b", <<ADoc, ADocifyA>>, <<>>),
   Item("Fn", "a", <<ADocifyA, ADocify>>, <<>>),
   Item("Impl", "a", <<ADocifyB, ADocifyA>>, <<>>)}

RECURSIVE ForestsN(_)
ForestsN(n) ==
  IF n = 0 THEN {<<>>}
  ELSE UNION {
         {<<[l EXCEPT !.items = c]>> \o r :
            l \in TreeLabels, c \in ForestsN(k), r \in ForestsN(n - 1 - k)} :
         k \in 0..(n - 1)}

TreeFiles == UNION {ForestsN(n) : n \in 0..MaxNodes}

Files == AttrFiles \cup KindFiles \cup TreeFiles

\* the text of a file: as prettyplease would lay it out, or laid out by hand
\* under a comment, without a final "\n"
Layouts == {"pretty", "ragged"}
Raw(items, layout) ==
  CASE layout = "pretty" -> unparse(items)
    [] layout = "ragged" -> <<Comment>> \o [i \in 1..Len(items) |-> Code(items[i], "ragged")]

\* the texts of the files that parse, and two texts that are not Rust
Texts ==
  {Raw(items, l) : items \in Files, l \in Layouts}
    \cup {<<Garbage>>, <<Code(Item("Fn", "a", <<ADocifyA>>, <<>>), "pretty"), Garbage>>}

Unreadable == [readable |-> FALSE, text |-> <<>>]
Readable(text) == [readable |-> TRUE, text |-> text]

Path == "p.rs"
Cwd == "/cwd"
LitStr(x) == [tt |-> "LitStr", text |-> x]

\* embed!("p.rs"), embed!("p.rs", a), embed!("p.rs", b)
EmbedTokens ==
  {<<LitStr(Path)>>, <<LitStr(Path), Comma, Id("a")>>, <<LitStr(Path), Comma, Id("b")>>}
\* embed!("p.rs",), embed!(a), embed!("p.rs" a), embed!("p.rs", a, b), embed!()
BadEmbedTokens ==
  {<<LitStr(Path), Comma>>, <<Id("a")>>, <<LitStr(Path), Id("a")>>,
   <<LitStr(Path), Comma, Id("a"), Comma, Id("b")>>, <<>>}

\* #[export], #[export(a)], #[export(b)], #[export(,)]
ExportTokens == {<<>>, <<Id("a")>>, <<Id("b")>>, <<Comma>>}

Call(macro, tokens, input) == [macro |-> macro, tokens |-> tokens, input |-> input]

EmbedInvocations ==
  {[call |-> Call(m, t, <<>>), fs |-> f] :
     m \in {"embed", "embed_run"}, t \in EmbedTokens,
     f \in {Unreadable} \cup {Readable(text) : text \in Texts}}
    \cup
  {[call |-> Call(m, t, <<>>), fs |-> f] :
     m \in {"embed", "embed_run"}, t \in BadEmbedTokens,
     f \in {Unreadable, Readable(<<Blank>>)}}

ExportInvocations ==
  {[call |-> Call("export", t, input), fs |-> Unreadable] :
     t \in ExportTokens,
     input \in {<<Garbage>>} \cup {to_string(f[1]) : f \in AttrFiles \cup KindFiles}}

NoRet == [status |-> "none", output |-> <<>>, err |-> <<>>, item |-> NoItem]
Ok(output) == [status |-> "Ok", output |-> output, err |-> <<>>, item |-> NoItem]
OkItem(item) == [status |-> "Ok", output |-> <<>>, err |-> <<>>, item |-> item]
Err(msg) == [status |-> "Err", output |-> <<>>, err |-> msg, item |-> NoItem]

Init ==
  /\ \E inv \in EmbedInvocations \cup ExportInvocations :
       /\ call = inv.call
       /\ fs = inv.fs
  /\ pc = "start"
  /\ source_file = <<>>
  /\ stack = <<>>
  /\ results = <<>>
  /\ matched = <<>>
  /\ ret = NoRet
  /\ panicked = ""

\* ------------------------------------------------------------------------
\* Parsing the macros' arguments
\* ------------------------------------------------------------------------
\* parse2::<EmbedArgs>: a string literal, then optionally a comma, and after
\* a comma an identifier; nothing may follow
parse2_EmbedArgs(tokens) ==
  LET bad == [ok |-> FALSE, file_path |-> "", item_ident |-> None]
  IN IF Len(tokens) = 0 \/ tokens[1].tt # "LitStr" THEN bad
     ELSE IF Len(tokens) = 1
       THEN [ok |-> TRUE, file_path |-> tokens[1].text, item_ident |-> None]
     ELSE IF tokens[2] # Comma THEN bad
     ELSE IF Len(tokens) = 3 /\ tokens[3].tt = "Ident"
       THEN [ok |-> TRUE, file_path |-> tokens[1].text, item_ident |-> tokens[3].text]
     ELSE bad

\* parse2::<ExportAttr>: optionally an identifier; nothing may follow
parse2_ExportAttr(tokens) ==
  IF tokens = <<>> THEN [ok |-> TRUE, ident |-> None]
  ELSE IF Len(tokens) = 1 /\ tokens[1].tt = "Ident"
    THEN [ok |-> TRUE, ident |-> tokens[1].text]
  ELSE [ok |-> FALSE, ident |-> None]

\* parse2::<Item>
parse2_Item(input) ==
  IF Len(input) = 1 /\ input[1].t = "code"
    THEN [ok |-> TRUE, item |-> input[1].item]
  ELSE [ok |-> FALSE, item |-> NoItem]

\* ------------------------------------------------------------------------
\* embed_internal
\* ------------------------------------------------------------------------
IsEmbed == call.macro \in {"embed", "embed_run"}
ignore == call.macro = "embed"
args == parse2_EmbedArgs(call.tokens)

Finish(r) ==
  /\ pc' = "done"
  /\ ret' = r
  /\ UNCHANGED <<call, fs, source_file, stack, results, matched, panicked>>

\* a panic ends the invocation: "unimplemented" in set_item_attributes,
\* "unwrap" in format_source_code
Panic(what) ==
  /\ pc' = "done"
  /\ panicked' = what
  /\ UNCHANGED <<call, fs, source_file, stack, results, matched, ret>>

\* `let args = parse2::<EmbedArgs>(tokens.into())?;` returns the error
EmbedArgsError ==
  /\ pc = "start" /\ IsEmbed
  /\ ~args.ok
  /\ Finish(Err(<<"parse error">>))

\* fs::read_to_string fails
EmbedReadError ==
  /\ pc = "start" /\ IsEmbed
  /\ args.ok
  /\ ~fs.readable
  /\ Finish(Err(<<"Could not read the specified path '", args.file_path,
                  "' relative to '", Cwd, "'.">>))

\* `source_code.parse::<TokenStream2>()?` or `parse2::<File>(parsed)?`
\* returns the error
EmbedParseError ==
  /\ pc = "start" /\ IsEmbed
  /\ args.ok
  /\ fs.readable
  /\ ~parse_file(fs.text).ok
  /\ Finish(Err(<<"parse error">>))

\* no item_ident: the whole file
EmbedWholeFile ==
  /\ pc = "start" /\ IsEmbed
  /\ args.ok
  /\ fs.readable
  /\ parse_file(fs.text).ok
  /\ args.item_ident = None
  /\ LET ex == into_example(fs.text, ignore)
     IN IF ex.panic THEN Panic("unwrap") ELSE Finish(Ok(ex.text))

\* an item_ident: the visitor is built and visit_file visits the items of
\* the file in order
EmbedVisitFile ==
  /\ pc = "start" /\ IsEmbed
  /\ args.ok
  /\ fs.readable
  /\ parse_file(fs.text).ok
  /\ args.item_ident # None
  /\ source_file' = parse_file(fs.text).items
  /\ stack' = [k \in 1..Len(source_file') |-> <<k>>]
  /\ results' = <<>>
  /\ matched' = <<>>
  /\ pc' = "visit"
  /\ UNCHANGED <<call, fs, ret, panicked>>

\* one call of ItemVisitor::visit_item, on the next item in the order of
\* the traversal; visit::visit_item(self, node) then visits the items below
visit_item ==
  /\ pc = "visit"
  /\ stack # <<>>
  /\ LET p == Head(stack)
         node == NodeAt(source_file, p)
         attrs == item_attributes(node)
         i == ScanAttrs(node, attrs, args.item_ident, 1)
         w == set_item_attributes(node, attrs_without_this_one(attrs, i))
     IN IF i # 0 /\ w.panic THEN Panic("unimplemented")
        ELSE /\ results' = IF i = 0 THEN results ELSE Append(results, w.item)
             /\ matched' = IF i = 0 THEN matched
                           ELSE Append(matched, [path |-> p, attr |-> i])
             /\ stack' = ChildPaths(p, node) \o Tail(stack)
             /\ UNCHANGED <<call, fs, pc, source_file, ret, panicked>>

\* EmbedResults without the test `visitor.results.is_empty()`
EmbedResults_no_check ==
  /\ pc = "visit"
  /\ stack = <<>>
  /\ LET exs == [k \in 1..Len(results) |->
                   into_example(to_string(results[k]), ignore)]
     IN IF \E k \in 1..Len(exs) : exs[k].panic THEN Panic("unwrap")
        ELSE Finish(Ok(join([k \in 1..Len(exs) |-> exs[k].text])))

\* after visit_file: the error when nothing was found, else the examples
EmbedResults ==
  /\ pc = "visit"
  /\ stack = <<>>
  /\ IF results = <<>>
       THEN Finish(Err(<<"Could not find docify export item '", args.item_ident,
                         "' in '", args.file_path, "'.">>))
       ELSE LET exs == [k \in 1..Len(results) |->
                          into_example(to_string(results[k]), ignore)]
            IN IF \E k \in 1..Len(exs) : exs[k].panic THEN Panic("unwrap")
               ELSE Finish(Ok(join([k \in 1..Len(exs) |-> exs[k].text])))

\* ------------------------------------------------------------------------
\* export_internal
\* ------------------------------------------------------------------------
export_internal ==
  /\ pc = "start" /\ call.macro = "export"
  /\ LET attr == parse2_ExportAttr(call.tokens)
         item == parse2_Item(call.input)
     IN IF ~attr.ok \/ ~item.ok THEN Finish(Err(<<"parse error">>))
        ELSE IF attr.ident = None /\ name_ident(item.item) = None
          THEN Finish(Err(<<"Cannot automatically detect ident from this item.">>))
        ELSE Finish(OkItem(item.item))

Next ==
  \/ EmbedArgsError
  \/ EmbedReadError
  \/ EmbedParseError
  \/ EmbedWholeFile
  \/ EmbedVisitFile
  \/ visit_item
  \/ EmbedResults
  \/ export_internal

Spec == Init /\ [][Next]_vars

\* ------------------------------------------------------------------------
\* Definitions for the properties
\* ------------------------------------------------------------------------
RECURSIVE PathsOf(_)
PathsOf(items) ==
  UNION {{<<k>>} \cup {<<k>> \o q : q \in PathsOf(items[k].items)} : k \in 1..Len(items)}

\* p comes before q in document order: p is an ancestor of q, or p lies in
\* an earlier sibling subtree
Before(p, q) ==
  /\ p # q
  /\ \/ /\ Len(p) < Len(q)
        /\ SubSeq(q, 1, Len(p)) = p
     \/ \E n \in 1..Len(p) :
          /\ n <= Len(q)
          /\ SubSeq(p, 1, n - 1) = SubSeq(q, 1, n - 1)
          /\ p[n] < q[n]

\* a named lookup over a readable, parseable file has ended
NamedLookupDone ==
  /\ pc = "done" /\ IsEmbed
  /\ args.ok /\ args.item_ident # None
  /\ fs.readable /\ parse_file(fs.text).ok

\* a whole-file lookup over a readable, parseable file has ended
WholeFileDone ==
  /\ pc = "done" /\ IsEmbed
  /\ args.ok /\ args.item_ident = None
  /\ fs.readable /\ parse_file(fs.text).ok

Tree == parse_file(fs.text).items
Search == args.item_ident

\* the rule of the specification for an export tag
SpecEligible(attr) ==
  /\ attr.style = "Outer"
  /\ attr.path # <<>>
  /\ attr.path[Len(attr.path)] = "export"
  /\ \/ Len(attr.path) = 1
     \/ attr.path[Len(attr.path) - 1] \in {"export", "docify"}

\* the inherent name of a declaration, None when it has none
InherentName(item) ==
  IF item.kind \in {"Impl", "Use", "ForeignMod", "Verbatim"} THEN None ELSE item.ident

\* the export key of a tag: its identifier argument, else the inherent name
HasIdentArgument(attr) ==
  attr.meta.t = "List" /\ Len(attr.meta.tokens) = 1 /\ attr.meta.tokens[1].tt = "Ident"
SpecKey(attr, item) ==
  IF HasIdentArgument(attr) THEN attr.meta.tokens[1].text ELSE InherentName(item)

\* the attributes a declaration carries
Carried(item) == IF item.kind = "Verbatim" THEN <<>> ELSE item.attrs

\* the positions, on a declaration, of the eligible tags that resolve to K
TagsFor(item, K) ==
  {i \in 1..Len(Carried(item)) :
     SpecEligible(Carried(item)[i]) /\ SpecKey(Carried(item)[i], item) = K}

\* the declarations of a tree with an eligible tag that resolves to K
Exported(items, K) == {p \in PathsOf(items) : TagsFor(NodeAt(items, p), K) # {}}

\* the same, for the tags with a namespace (path of two or more segments)
Namespaced(attr) == SpecEligible(attr) /\ Len(attr.path) >= 2
NamespacedTagsFor(item, K) ==
  {i \in TagsFor(item, K) : Namespaced(Carried(item)[i])}
NamespacedExported(items, K) ==
  {p \in PathsOf(items) : NamespacedTagsFor(NodeAt(items, p), K) # {}}

MatchedPaths == {matched[k].path : k \in 1..Len(matched)}

\* the display blocks of a text: the positions of its fence lines, the body
\* of the k-th block and the lines between the k-th block and the next
FenceAt(text) == {n \in 1..Len(text) : text[n].t = "fence"}
NthFence(text, k) ==
  CHOOSE n \in FenceAt(text) : Cardinality({m \in FenceAt(text) : m <= n}) = k
WellFenced(text) ==
  /\ Cardinality(FenceAt(text)) % 2 = 0
  /\ text # <<>> => (1 \in FenceAt(text) /\ Len(text) \in FenceAt(text))
NumBlocks(text) == Cardinality(FenceAt(text)) \div 2
BlockOpen(text, k) == text[NthFence(text, 2 * k - 1)]
BlockBody(text, k) ==
  SubSeq(text, NthFence(text, 2 * k - 1) + 1, NthFence(text, 2 * k) - 1)
BlockGap(text, k) ==
  SubSeq(text, NthFence(text, 2 * k) + 1, NthFence(text, 2 * k + 1) - 1)

\* ------------------------------------------------------------------------
\* The properties
\* ------------------------------------------------------------------------
IsBareExport(attr) ==
  attr.style = "Outer" /\ attr.path = <<"export">> /\ attr.meta.t = "Path"

\* C1: in a lookup an attribute is treated as an export tag exactly when it
\* is outer, its last path segment is `export`, and the path has one segment
\* or its second-to-last segment is `export` or `docify`: nothing is
\* included through an attribute that is not such a tag, every declaration
\* with such a tag whose key is the name looked up is included, and so is
\* every declaration with inherent name N under a bare #[export] in a lookup
\* for N.
C1_ExportTagRule ==
  NamedLookupDone =>
    /\ \A k \in 1..Len(matched) :
         SpecEligible(Carried(NodeAt(Tree, matched[k].path))[matched[k].attr])
    /\ \A p \in PathsOf(Tree) :
         LET node == NodeAt(Tree, p)
         IN /\ (\E i \in 1..Len(Carried(node)) :
                  /\ SpecEligible(Carried(node)[i])
                  /\ SpecKey(Carried(node)[i], node) = Search)
                 => p \in MatchedPaths
            /\ (/\ InherentName(node) = Search
                /\ \E i \in 1..Len(Carried(node)) : IsBareExport(Carried(node)[i]))
                 => p \in MatchedPaths

\* C2: the key of an eligible export tag is its identifier argument when it
\* has one, else the inherent name of the declaration, and a tag with
\* neither matches nothing: every declaration included in a lookup for N is
\* included through a tag whose key so computed is N, and every declaration
\* with an eligible tag whose argument is N is included in the lookup for N,
\* whatever its own name is.
C2_ExportKey ==
  NamedLookupDone =>
    /\ panicked = ""
    /\ \A k \in 1..Len(matched) :
         LET node == NodeAt(Tree, matched[k].path)
             attr == Carried(node)[matched[k].attr]
         IN /\ HasIdentArgument(attr) => attr.meta.tokens[1].text = Search
            /\ ~HasIdentArgument(attr) => InherentName(node) = Search
    /\ \A p \in PathsOf(Tree) :
         LET node == NodeAt(Tree, p)
         IN (\E i \in 1..Len(Carried(node)) :
               /\ SpecEligible(Carried(node)[i])
               /\ HasIdentArgument(Carried(node)[i])
               /\ Carried(node)[i].meta.tokens[1].text = Search)
              => p \in MatchedPaths

\* the statement of C2 for the tags with a namespace: it holds
ExportKeyNamespaced ==
  NamedLookupDone =>
    /\ panicked = ""
    /\ \A k \in 1..Len(matched) :
         LET node == NodeAt(Tree, matched[k].path)
             attr == Carried(node)[matched[k].attr]
         IN /\ HasIdentArgument(attr) => attr.meta.tokens[1].text = Search
            /\ ~HasIdentArgument(attr) => InherentName(node) = Search
    /\ \A p \in PathsOf(Tree) :
         LET node == NodeAt(Tree, p)
         IN (\E i \in 1..Len(Carried(node)) :
               /\ Namespaced(Carried(node)[i])
               /\ HasIdentArgument(Carried(node)[i])
               /\ Carried(node)[i].meta.tokens[1].text = Search)
              => p \in MatchedPaths

ResultsAreTheNodes ==
  /\ Len(results) = Len(matched)
  /\ \A j, k \in 1..Len(matched) :
       j < k => Before(matched[j].path, matched[k].path)
  /\ \A k \in 1..Len(matched) :
       LET node == NodeAt(Tree, matched[k].path)
       IN /\ results[k].kind = node.kind
          /\ results[k].ident = node.ident
          /\ results[k].items = node.items

\* C3: the results of the search for K are exactly the declarations, at any
\* depth, that carry an eligible export tag resolving to K, each once, in
\* document order (a parent before its descendants, siblings in textual
\* order).
C3_TreeSearch ==
  NamedLookupDone =>
    /\ panicked = ""
    /\ MatchedPaths = Exported(Tree, Search)
    /\ ResultsAreTheNodes

\* the statement of C3 for the tags with a namespace: it holds
TreeSearchNamespaced ==
  NamedLookupDone =>
    /\ panicked = ""
    /\ MatchedPaths = NamespacedExported(Tree, Search)
    /\ ResultsAreTheNodes

C5_NotFound ==
  NamedLookupDone =>
    /\ panicked = ""
    /\ IF results = <<>>
         THEN /\ ret.status = "Err"
              /\ ret.output = <<>>
              /\ \E n \in 1..Len(ret.err) : ret.err[n] = Search
              /\ \E n \in 1..Len(ret.err) : ret.err[n] = args.file_path
         ELSE /\ ret.status = "Ok"
              /\ WellFenced(ret.output)
              /\ NumBlocks(ret.output) = Len(results)
              /\ NumBlocks(ret.output) >= 1

\* nothing found in a file that exports something under another name
C5_Witness ==
  /\ NamedLookupDone
  /\ ret.status = "Err"
  /\ \E K \in Idents : NamespacedExported(Tree, K) # {}

\* C6: a lookup with no name returns one display block whose body is the
\* content of the file as read.
C6_WholeFileVerbatim ==
  WholeFileDone =>
    /\ ret.status = "Ok"
    /\ WellFenced(ret.output)
    /\ NumBlocks(ret.output) = 1
    /\ BlockBody(ret.output, 1) = lines(fs.text)

BlocksInOrder ==
  /\ ret.status = "Ok"
  /\ WellFenced(ret.output)
  /\ NumBlocks(ret.output) = Len(results)
  /\ \A k \in 1..Len(results) :
       /\ BlockOpen(ret.output, k) = IF ignore THEN FenceIgnore ELSE Fence
       /\ BlockBody(ret.output, k) = <<Code(results[k], "pretty")>>

\* C7 as claimed: with two or more matches the text is the blocks in the
\* order of the traversal, with one blank line between the closing fence of
\* a block and the opening fence of the next.
C7_BlankLineBetween ==
  (NamedLookupDone /\ Len(results) >= 2) =>
    /\ BlocksInOrder
    /\ \A k \in 1..(Len(results) - 1) : BlockGap(ret.output, k) = <<Blank>>

\* C7 as amended: with two or more matches the text is the blocks in the
\* order of the traversal, the opening fence of a block on the line after
\* the closing fence of the block before it, with no line between them.
C7_BlocksAdjacent ==
  (NamedLookupDone /\ Len(results) >= 2) =>
    /\ BlocksInOrder
    /\ \A k \in 1..(Len(results) - 1) : BlockGap(ret.output, k) = <<>>

C7_Witness ==
  /\ NamedLookupDone
  /\ Len(results) >= 3
  /\ ret.status = "Ok"

\* C8: when its inputs parse, export_internal fails exactly when it has no
\* identifier argument and the declaration has no inherent name, and else
\* returns the declaration unchanged.
C8_ExportResult ==
  (/\ pc = "done" /\ call.macro = "export"
   /\ parse2_ExportAttr(call.tokens).ok /\ parse2_Item(call.input).ok) =>
    /\ panicked = ""
    /\ IF /\ parse2_ExportAttr(call.tokens).ident = None
          /\ InherentName(parse2_Item(call.input).item) = None
         THEN ret.status = "Err"
         ELSE ret.status = "Ok" /\ ret.item = call.input[1].item

\* #[export] on an impl block fails
C8_Witness ==
  /\ pc = "done" /\ call.macro = "export"
  /\ call.tokens = <<>>
  /\ parse2_Item(call.input).ok
  /\ call.input[1].item.kind = "Impl"
  /\ ret.status = "Err"

\* the positions of the export tags with a namespace, on a declaration,
\* that resolve to a key
KeyedTags(item) ==
  {i \in 1..Len(Carried(item)) :
     Namespaced(Carried(item)[i]) /\ SpecKey(Carried(item)[i], item) # None}
MinOf(S) == CHOOSE n \in S : \A m \in S : n <= m
FirstKey(item) == SpecKey(Carried(item)[MinOf(KeyedTags(item))], item)
SecondTag(item) == MinOf(KeyedTags(item) \ {MinOf(KeyedTags(item))})
SecondKey(item) == SpecKey(Carried(item)[SecondTag(item)], item)
TwoKeys(item) ==
  Cardinality(KeyedTags(item)) >= 2 /\ FirstKey(item) # SecondKey(item)

\* C9 as claimed, for tags with a namespace: when a declaration carries two
\* export tags with the keys K1 (first) and K2 (second), K1 # K2, a lookup
\* for K1 returns it and a lookup for K2 does not.
C9_OnlyFirstTag ==
  NamedLookupDone =>
    \A p \in PathsOf(Tree) :
      LET node == NodeAt(Tree, p)
      IN TwoKeys(node) =>
           /\ Search = FirstKey(node) => p \in MatchedPaths
           /\ Search = SecondKey(node) => p \notin MatchedPaths

\* C9 as amended: when a declaration carries two export tags with a
\* namespace, with the keys K1 (first) and K2 (second), K1 # K2, a lookup for
\* K1 returns the declaration without its first tag, and a lookup for K2
\* returns it too, without its second tag and with the first tag kept.
C9_EitherTag ==
  NamedLookupDone =>
    /\ panicked = ""
    /\ Len(results) = Len(matched)
    /\ \A p \in PathsOf(Tree) :
         LET node == NodeAt(Tree, p)
             i1 == MinOf(KeyedTags(node))
             i2 == SecondTag(node)
         IN TwoKeys(node) =>
              /\ Search = FirstKey(node) =>
                   \E k \in 1..Len(matched) :
                     /\ matched[k] = [path |-> p, attr |-> i1]
                     /\ results[k].attrs[i2 - 1] = node.attrs[i2]
              /\ Search = SecondKey(node) =>
                   \E k \in 1..Len(matched) :
                     /\ matched[k] = [path |-> p, attr |-> i2]
                     /\ results[k].attrs[i1] = node.attrs[i1]

\* a declaration found through the second of its two tags
C9_Witness ==
  /\ NamedLookupDone
  /\ \E k \in 1..Len(matched) :
       LET node == NodeAt(Tree, matched[k].path)
       IN /\ TwoKeys(node)
          /\ Search = SecondKey(node)
          /\ matched[k].attr = SecondTag(node)

\* C10: the unimplemented!() arm of set_item_attributes is never reached:
\* whenever visit_item is about to write the attributes of an item, the item
\* is of a variant with attributes and item_attributes returned a list that
\* holds the matching attribute.
C10_NoUnimplemented ==
  /\ panicked # "unimplemented"
  /\ (pc = "visit" /\ stack # <<>>) =>
       LET node == NodeAt(source_file, Head(stack))
           attrs == item_attributes(node)
           i == ScanAttrs(node, attrs, Search, 1)
       IN i # 0 =>
            /\ node.kind \in AttrKinds
            /\ i \in 1..Len(attrs)
            /\ IsExportTag(attrs[i])
            /\ ~set_item_attributes(node, attrs_without_this_one(attrs, i)).panic

\* visit_item is about to write the attributes of a `use` declaration
C10_Witness ==
  /\ pc = "visit" /\ stack # <<>>
  /\ NodeAt(source_file, Head(stack)).kind = "Use"
  /\ ScanAttrs(NodeAt(source_file, Head(stack)),
               item_attributes(NodeAt(source_file, Head(stack))), Search, 1) # 0

\* a whole-file lookup of a file laid out as the formatter would, without
\* comments, does return the text of the file
WholeFilePretty ==
  (/\ WholeFileDone
   /\ \A n \in 1..Len(fs.text) :
        fs.text[n].t # "comment" /\ fs.text[n].info # "ragged") =>
    C6_WholeFileVerbatim

====
